---- MODULE Spec2Model ----
(***************************************************************************)
(* Model of the sunburst view of rpf-bottleneck-viz (src/src/App.js and    *)
(* its group-coloured variant src/unnamed/part_000): the tree flattener    *)
(* transformDataForSunburst, the click handler handlePlotClick, the        *)
(* breadcrumb effect and the pop-out table.                                *)
(*                                                                         *)
(* Strings that the code splits into words are kept as the non-empty       *)
(* sequence of their space-free words (text.split(' ')): "a b" is          *)
(* <<"a", "b">>, "" is <<"">>.  Identifiers, colours and other strings     *)
(* that are never split are TLA+ strings.                                  *)
(***************************************************************************)
EXTENDS Integers, Sequences, FiniteSets, TLC

VARIABLES
  variant,           \* which source file the view is built from
  rawDataTree,       \* the hierarchy literal handed to the flattener
  status,            \* "loading" | "ready" | "hung" | "crashed"
  transformedData,   \* useState: {ids, labels, parents, values, colors, nodeInfo, textColors}
  currentLevelId,    \* useState: the focus id ('' before the mount effect)
  showPopoutTable,   \* useState: the detail panel flag
  popoutTableRows,   \* useState: the detail panel rows
  breadcrumbs,       \* useState (App.js only): labels from below the root to the focus
  lastEvent,         \* history: the event handled last
  prev,              \* history: the navigation state when that event arrived
  wrapCall,          \* a call of wrapText: its arguments and what it returned
  graphDivRef,       \* useRef: FALSE is null, TRUE is the chart's graphDiv
  listeners,         \* the plotly_click listeners of the graphDiv, in order of registration
  lastCalls,         \* history: registrations added and removed by the last event
  flattenCall        \* a call of transformDataForSunburst on a cyclic structure, step by step

vars == <<variant, rawDataTree, status, transformedData, currentLevelId,
          showPopoutTable, popoutTableRows, breadcrumbs, lastEvent, prev,
          wrapCall, graphDivRef, listeners, lastCalls, flattenCall>>

(***************************************************************************)
(* Bounds of the model.                                                    *)
(***************************************************************************)
MaxNodes == 4        \* nodes below the root in an input hierarchy
NumLabels == 3       \* size of the pool the labels are drawn from
MaxWords == 3        \* words of a text handed to wrapText on its own
MaxLength == 5       \* largest maxLength handed to wrapText on its own

(***************************************************************************)
(* JavaScript values.                                                      *)
(***************************************************************************)
Undefined == "undefined"      \* the value of a missing property
NoMap == [k \in {} |-> 0]     \* {} and new Map()

Variants == {"App.js", "part_000"}

(***************************************************************************)
(* Labels.  The first one is the root label of both source files; the      *)
(* others are group, sub-group and statement labels of the literals.       *)
(***************************************************************************)
AllLabels ==
  << <<"Role", "of", "Public", "Finance">>,
     <<"Commitment", "to", "Feasible", "Policy">>,
     <<"Fiscal", "sustainability">>,
     <<"Performance", "&", "Accountability", "in", "Delivery">>,
     <<"Financial", "unviability", "of", "providers", "and", "utilities">>,
     <<"Incoherence", "and", "fragmentation", "of", "policy">>,
     <<"Data", "systems", "are", "fragmented", "and", "do", "not", "interoperate">>,
     <<"Shortfalls,", "delays", "and", "diversion", "of", "funding", "for", "delivery">> >>

RootLabel == AllLabels[1]
Labels == {AllLabels[i] : i \in 1..NumLabels}

(***************************************************************************)
(* String helpers on word sequences.                                       *)
(***************************************************************************)
RECURSIVE SumLen(_)
SumLen(ws) == IF ws = <<>> THEN 0 ELSE Len(Head(ws)) + SumLen(Tail(ws))

\* text.length of the string whose words are ws
StrLength(ws) == SumLen(ws) + Len(ws) - 1

RECURSIVE DropLeading(_)
DropLeading(ws) ==
  IF ws # <<>> /\ Head(ws) = "" THEN DropLeading(Tail(ws)) ELSE ws

RECURSIVE DropTrailing(_)
DropTrailing(ws) ==
  IF ws # <<>> /\ ws[Len(ws)] = ""
  THEN DropTrailing(SubSeq(ws, 1, Len(ws) - 1))
  ELSE ws

\* String.prototype.trim applied to currentLine, the string made of the
\* words of line each followed by one space
trim(line) ==
  LET t == DropTrailing(DropLeading(line))
  IN  IF t = <<>> THEN <<"">> ELSE t

(***************************************************************************)
(* wrapText.  The result is the sequence of lines that the code joins      *)
(* with '<br>'; a text returned as it came is the single line <<text>>.    *)
(***************************************************************************)
\* wrapLoop that breaks as soon as the line would reach maxLength
RECURSIVE wrapLoop_breaksAtLimit(_, _, _, _, _)
wrapLoop_breaksAtLimit(words, index, currentLine, wrappedText, maxLength) ==
  IF index > Len(words)
  THEN wrappedText
  ELSE LET word == words[index]
           break == /\ SumLen(currentLine) + Len(currentLine) + Len(word) >= maxLength
                    /\ Len(currentLine) > 0
           wrapped1 == IF break THEN Append(wrappedText, trim(currentLine))
                                ELSE wrappedText
           line1 == IF break THEN <<word>> ELSE Append(currentLine, word)
           wrapped2 == IF index = Len(words) THEN Append(wrapped1, trim(line1))
                                             ELSE wrapped1
       IN  wrapLoop_breaksAtLimit(words, index + 1, line1, wrapped2, maxLength)

RECURSIVE wrapLoop(_, _, _, _, _)
wrapLoop(words, index, currentLine, wrappedText, maxLength) ==
  IF index > Len(words)
  THEN wrappedText
  ELSE LET word == words[index]
           break == /\ SumLen(currentLine) + Len(currentLine) + Len(word) > maxLength
                    /\ Len(currentLine) > 0
           wrapped1 == IF break THEN Append(wrappedText, trim(currentLine))
                                ELSE wrappedText
           line1 == IF break THEN <<word>> ELSE Append(currentLine, word)
           wrapped2 == IF index = Len(words) THEN Append(wrapped1, trim(line1))
                                             ELSE wrapped1
       IN  wrapLoop(words, index + 1, line1, wrapped2, maxLength)

\* wrapText with text.length < maxLength as the test for returning the text
wrapText_strictBound(text, maxLength) ==
  IF StrLength(text) < maxLength
  THEN <<text>>
  ELSE wrapLoop(text, 1, <<>>, <<>>, maxLength)

wrapText(text, maxLength) ==
  IF StrLength(text) <= maxLength
  THEN <<text>>
  ELSE wrapLoop(text, 1, <<>>, <<>>, maxLength)

TEXT_WRAP_MAX_LENGTH == 25

(***************************************************************************)
(* generateSampleRows.  Every row is a prefix of loremIpsum repeated, so   *)
(* a row is kept as its length.                                            *)
(***************************************************************************)
LoremIpsumLength == 446

RECURSIVE fillText(_, _)
fillText(textLength, charPerLine) ==
  IF textLength < charPerLine
  THEN fillText(textLength + LoremIpsumLength, charPerLine)
  ELSE textLength

Min(a, b) == IF a < b THEN a ELSE b

RECURSIVE sampleRowsLoop(_, _, _, _)
sampleRowsLoop(i, numRows, charPerLine, rows) ==
  IF i < numRows
  THEN sampleRowsLoop(i + 1, numRows, charPerLine,
                      Append(rows, Min(fillText(0, charPerLine), charPerLine)))
  ELSE rows

\* generateSampleRows without the substring(0, charPerLine)
generateSampleRows_noSubstring(numRows, charPerLine) ==
  [i \in 1..numRows |-> fillText(0, charPerLine)]

generateSampleRows(numRows, charPerLine) ==
  sampleRowsLoop(0, numRows, charPerLine, <<>>)

(***************************************************************************)
(* Input hierarchies: {root: {group: {sub-group: [statement, ...]}}}.      *)
(* An object is the sequence of its keys in insertion order, so the labels *)
(* of one object are distinct.  With distinct = TRUE all the labels of a   *)
(* hierarchy differ, as in the literals of both source files, and they are *)
(* taken from the pool in pool order; with distinct = FALSE a label may    *)
(* come back under another parent, at another level, or twice in one       *)
(* statement list.                                                         *)
(***************************************************************************)
Range(f) == {f[i] : i \in DOMAIN f}

LabelIndex(l) == CHOOSE i \in 1..Len(AllLabels) : AllLabels[i] = l

\* the labels the next node may take, used being the labels to stay clear of
Fresh(pool, used, distinct) ==
  IF distinct
  THEN {l \in pool : \A u \in used : LabelIndex(u) < LabelIndex(l)}
  ELSE pool \ used

PolicySeqs(pool, k, used, distinct) ==
  IF distinct
  THEN {p \in [1..k -> Fresh(pool, used, TRUE)] :
          \A i, j \in 1..k : i < j => LabelIndex(p[i]) < LabelIndex(p[j])}
  ELSE [1..k -> pool]

RECURSIVE SubGroupSeqs(_, _, _, _)
SubGroupSeqs(pool, n, used, distinct) ==
  IF n <= 0 THEN {<<>>} ELSE
  {<<>>} \cup
  UNION { UNION { UNION { { <<[label |-> l, policies |-> p]>> \o rest :
                            rest \in SubGroupSeqs(pool, n - 1 - k,
                                       used \cup {l} \cup (IF distinct THEN Range(p) ELSE {}),
                                       distinct) } :
                          p \in PolicySeqs(pool, k, used \cup {l}, distinct) } :
                  k \in 0..(n - 1) } :
          l \in Fresh(pool, used, distinct) }

RECURSIVE TreeSize(_)
TreeSize(nodes) ==
  IF nodes = <<>> THEN 0
  ELSE 1 + TreeSize(Tail(nodes))
         + (IF "subs" \in DOMAIN Head(nodes)
            THEN TreeSize(Head(nodes).subs)
            ELSE Len(Head(nodes).policies))

RECURSIVE LabelsOf(_)
LabelsOf(nodes) ==
  IF nodes = <<>> THEN {}
  ELSE {Head(nodes).label} \cup LabelsOf(Tail(nodes))
         \cup (IF "subs" \in DOMAIN Head(nodes)
               THEN LabelsOf(Head(nodes).subs)
               ELSE Range(Head(nodes).policies))

RECURSIVE GroupSeqs(_, _, _, _)
GroupSeqs(pool, n, used, distinct) ==
  IF n <= 0 THEN {<<>>} ELSE
  {<<>>} \cup
  UNION { UNION { { <<[label |-> l, subs |-> s]>> \o rest :
                    rest \in GroupSeqs(pool, n - 1 - TreeSize(s),
                               used \cup {l} \cup (IF distinct THEN LabelsOf(s) ELSE {}),
                               distinct) } :
                  s \in SubGroupSeqs(pool, n - 1,
                                     IF distinct THEN used \cup {l} ELSE {}, distinct) } :
          l \in Fresh(pool, used, distinct) }

\* the hierarchies of at most MaxNodes nodes below the root
HierarchiesOver(pool, used, distinct) ==
  { [root |-> RootLabel, groups |-> g] : g \in GroupSeqs(pool, MaxNodes, used, distinct) }

\* hierarchies labelled like the literals of the source: no label twice
LiteralLabels == {AllLabels[i] : i \in 1..(MaxNodes + 1)}
Hierarchies == HierarchiesOver(LiteralLabels, {RootLabel}, TRUE)

(***************************************************************************)
(* The flattener.  acc holds the local variables of one run of             *)
(* transformDataForSunburst.                                               *)
(***************************************************************************)
EmptyAcc ==
  [ ids |-> <<>>, labels |-> <<>>, parents |-> <<>>, values |-> <<>>,
    colors |-> <<>>, textColors |-> <<>>,
    nodeValues |-> NoMap, nodeInfo |-> NoMap,
    idCounter |-> 0, idMap |-> NoMap,
    l1idx |-> 0, l2globalIdx |-> 0,
    nodeGroupColor |-> NoMap,
    thrown |-> FALSE ]

\* newLocals with idCounter declared outside the function: a call goes on
\* counting where the call before stopped
newLocals_sharedCounter(left) == [EmptyAcc EXCEPT !.idCounter = left.idCounter]

\* the declarations at the top of transformDataForSunburst: a call starts
\* with empty arrays, idCounter = 0 and an empty idMap, whatever the local
\* variables of an earlier call were left as
newLocals(left) == EmptyAcc

\* generateUniqueId without the label -> id cache: every call allocates
generateUniqueId_noCache(acc, label) ==
  LET newId == "node-" \o ToString(acc.idCounter)
  IN  [id |-> newId,
       acc |-> [acc EXCEPT !.idCounter = @ + 1,
                           !.idMap = (label :> newId) @@ @]]

generateUniqueId(acc, label) ==
  IF label \in DOMAIN acc.idMap
  THEN [id |-> acc.idMap[label], acc |-> acc]
  ELSE LET newId == "node-" \o ToString(acc.idCounter)
       IN  [id |-> newId,
            acc |-> [acc EXCEPT !.idCounter = @ + 1,
                                !.idMap = (label :> newId) @@ @]]

\* pushNode with parents.unshift(parentId) in place of parents.push(parentId)
pushNode_unshiftParents(acc, id, label, parentId, value, depth, color, textColor) ==
  [acc EXCEPT
     !.ids = Append(@, id),
     !.labels = Append(@, wrapText(label, TEXT_WRAP_MAX_LENGTH)),
     !.parents = <<parentId>> \o @,
     !.values = Append(@, value),
     !.colors = Append(@, color),
     !.textColors = Append(@, textColor),
     !.nodeValues = (id :> value) @@ @,
     !.nodeInfo = (id :> [label |-> label, parentId |-> parentId,
                          depth |-> depth, children |-> <<>>]) @@ @]

\* the pushes onto the six arrays and the nodeValues / nodeInfo entries of
\* one node
pushNode(acc, id, label, parentId, value, depth, color, textColor) ==
  [acc EXCEPT
     !.ids = Append(@, id),
     !.labels = Append(@, wrapText(label, TEXT_WRAP_MAX_LENGTH)),
     !.parents = Append(@, parentId),
     !.values = Append(@, value),
     !.colors = Append(@, color),
     !.textColors = Append(@, textColor),
     !.nodeValues = (id :> value) @@ @,
     !.nodeInfo = (id :> [label |-> label, parentId |-> parentId,
                          depth |-> depth, children |-> <<>>]) @@ @]

\* nodeInfo[parentId].children.push(id)
pushChild(acc, parentId, id) ==
  [acc EXCEPT !.nodeInfo[parentId].children = Append(@, id)]

\* nodeValues[parentId] += nodeValues[id]
addValue(acc, parentId, id) ==
  [acc EXCEPT !.nodeValues[parentId] = @ + acc.nodeValues[id]]

\* the closing loop: values[i] = nodeValues[ids[i]]
finalValues(acc) == [i \in 1..Len(acc.ids) |-> acc.nodeValues[acc.ids[i]]]

result(acc) ==
  [ ids |-> acc.ids, labels |-> acc.labels, parents |-> acc.parents,
    values |-> finalValues(acc), colors |-> acc.colors,
    nodeInfo |-> acc.nodeInfo, textColors |-> acc.textColors ]

(***************************************************************************)
(* src/src/App.js: depth-alternating colours.                              *)
(***************************************************************************)
LAYER_COLORS ==
  << <<"#FF848B", "#F84B64">>,
     <<"#C9E7F8", "#4D9FD3">>,
     <<"#C742B3", "#D1BACE">> >>

\* getAltColor that always takes the first colour of the layer
getAltColor_firstColour(depth, idx) ==
  IF depth = 0 THEN "#FFFFFF"
  ELSE IF depth > 3 THEN "#CCCCCC"
  ELSE LAYER_COLORS[depth][1]

getAltColor(depth, idx) ==
  IF depth = 0 THEN "#FFFFFF"
  ELSE IF depth > 3 THEN "#CCCCCC"
  ELSE LAYER_COLORS[depth][(idx % 2) + 1]

\* one statement of a policies array: its pushes, the link from the
\* sub-group and nodeValues[level2Id] += 1; g is the outcome of
\* generateUniqueId
appPolicy(g, level2Id, policy, l3idx) ==
  LET a1 == pushNode(g.acc, g.id, policy, level2Id, 1, 3,
                     getAltColor(3, l3idx), "black")
      a2 == pushChild(a1, level2Id, g.id)
  IN  [a2 EXCEPT !.nodeValues[level2Id] = @ + 1]

RECURSIVE appPolicies(_, _, _, _, _)
appPolicies(acc, level2Id, policies, i, l3idx) ==
  IF i > Len(policies)
  THEN acc
  ELSE appPolicies(appPolicy(generateUniqueId(acc, policies[i]),
                             level2Id, policies[i], l3idx),
                   level2Id, policies, i + 1, l3idx + 1)

\* one sub-group: its pushes, its statements, then
\* nodeValues[level1Id] += nodeValues[level2Id] and l2globalIdx++
appSubGroup(g, level1Id, sub) ==
  LET a1 == pushNode(g.acc, g.id, sub.label, level1Id, 0, 2,
                     getAltColor(2, g.acc.l2globalIdx), "black")
      a2 == pushChild(a1, level1Id, g.id)
      a3 == appPolicies(a2, g.id, sub.policies, 1, 0)
      a4 == addValue(a3, level1Id, g.id)
  IN  [a4 EXCEPT !.l2globalIdx = @ + 1]

RECURSIVE appLevel2(_, _, _, _)
appLevel2(acc, level1Id, subs, j) ==
  IF j > Len(subs)
  THEN acc
  ELSE appLevel2(appSubGroup(generateUniqueId(acc, subs[j].label), level1Id, subs[j]),
                 level1Id, subs, j + 1)

\* one group: its pushes, its sub-groups, then
\* nodeValues[rootId] += nodeValues[level1Id] and l1idx++
appGroup(g, rootId, group) ==
  LET a1 == pushNode(g.acc, g.id, group.label, rootId, 0, 1,
                     getAltColor(1, g.acc.l1idx), "#FFFFFF")
      a2 == pushChild(a1, rootId, g.id)
      a3 == appLevel2(a2, g.id, group.subs, 1)
      a4 == addValue(a3, rootId, g.id)
  IN  [a4 EXCEPT !.l1idx = @ + 1]

RECURSIVE appLevel1(_, _, _, _)
appLevel1(acc, rootId, groups, k) ==
  IF k > Len(groups)
  THEN acc
  ELSE appLevel1(appGroup(generateUniqueId(acc, groups[k].label), rootId, groups[k]),
                 rootId, groups, k + 1)

\* the root node, then the groups
appRoot(g, dataTree) ==
  appLevel1(pushNode(g.acc, g.id, dataTree.root, "", 0, 0, getAltColor(0, 0), "black"),
            g.id, dataTree.groups, 1)

\* the run that starts from the given local variables
appTransformFrom(locals, dataTree) ==
  appRoot(generateUniqueId(locals, dataTree.root), dataTree)

appTransform(dataTree) == appTransformFrom(newLocals(EmptyAcc), dataTree)

(***************************************************************************)
(* src/unnamed/part_000: colours keyed by the top-level group.             *)
(***************************************************************************)
COLOR_PALETTES_BY_GROUP ==
  (<<"Role", "of", "Public", "Finance">>
     :> [level0 |-> "#FFFFFF"]) @@
  (<<"Commitment", "to", "Feasible", "Policy">>
     :> [level1 |-> "#F84B64", level2 |-> "#C9E7F8", level3 |-> "#D2B4DE"]) @@
  (<<"Insufficient", "Stakeholder", "Commitment", "to", "Policy", "Action">>
     :> [level1 |-> "FF848B", level2 |-> "#C9E7F8", level3 |-> "#D2B4DE"]) @@
  (<<"Incoherence", "and", "fragmentation", "of", "policy">>
     :> [level1 |-> "#f84b64", level2 |-> "#C9E7F8", level3 |-> "#D2B4DE"]) @@
  (<<"Mismatch", "between", "policy", "goals,", "capability", "and", "resources">>
     :> [level1 |-> "#d24989", level2 |-> "#C9E7F8", level3 |-> "#D2B4DE"]) @@
  (<<"Fiscal", "sustainability">>
     :> [level1 |-> "#F84B64", level2 |-> "#C9E7F8", level3 |-> "#F1948A"]) @@
  (<<"Unsustainable", "fiscal", "situation", "of", "governments", "and", "organizations">>
     :> [level1 |-> "#C0392B", level2 |-> "#C9E7F8", level3 |-> "#F1948A"]) @@
  (<<"Effective", "Resource", "Mobilization", "&", "Distribution">>
     :> [level1 |-> "FF848B", level2 |-> "#C9E7F8", level3 |-> "#A9DFBF"]) @@
  (<<"Inadequate", "and", "inequitable", "resources", "mobilized", "and", "deployed", "for", "policy", "implementation">>
     :> [level1 |-> "#27AE60", level2 |-> "#C9E7F8", level3 |-> "#A9DFBF"]) @@
  (<<"Unreliable,", "delayed", "and", "fragmented", "funding", "for", "delivery">>
     :> [level1 |-> "#27AE60", level2 |-> "#C9E7F8", level3 |-> "#A9DFBF"]) @@
  (<<"Inefficient", "deployment", "and", "management", "of", "resources", "and", "inputs", "for", "delivery">>
     :> [level1 |-> "#27AE60", level2 |-> "#C9E7F8", level3 |-> "#A9DFBF"]) @@
  (<<"Performance", "&", "Accountability", "in", "Delivery">>
     :> [level1 |-> "FF848B", level2 |-> "#C9E7F8", level3 |-> "#85C1E9"]) @@
  (<<"Incentives,", "management", "oversight,", "and", "accountability", "systems", "and", "institutions", "fail", "to", "enable", "and", "encourage", "performance", "as", "intended">>
     :> [level1 |-> "#2980B9", level2 |-> "#C9E7F8", level3 |-> "#85C1E9"]) @@
  (<<"Inadequate", "use", "of", "fragmented", "sector", "and", "financial", "data", "in", "decision", "making", "for", "policy", "and", "delivery.">>
     :> [level1 |-> "#2980B9", level2 |-> "#C9E7F8", level3 |-> "#85C1E9"])

\* obj.field of a palette entry: undefined when the entry lacks the field
field(obj, name) == IF name \in DOMAIN obj THEN obj[name] ELSE Undefined

\* if (parentId) { if (nodeInfo[parentId]) nodeInfo[parentId].children.push(id) }
linkChild(acc, parentId, id) ==
  IF parentId # "" /\ parentId \in DOMAIN acc.nodeInfo
  THEN pushChild(acc, parentId, id)
  ELSE acc

\* addNode that always picks black text
addNodeWithId_blackText(g, label, parentId, initialValue, depth, color) ==
  [id |-> g.id,
   acc |-> linkChild(pushNode(g.acc, g.id, label, parentId, initialValue, depth, color,
                              "black"),
                     parentId, g.id)]

\* g is the outcome of generateUniqueId(label)
addNodeWithId(g, label, parentId, initialValue, depth, color) ==
  [id |-> g.id,
   acc |-> linkChild(pushNode(g.acc, g.id, label, parentId, initialValue, depth, color,
                              IF color \in {"#F84B64", "FF848B"}
                              THEN "#FFFFFF" ELSE "black"),
                     parentId, g.id)]

addNode(acc, label, parentId, initialValue, depth, color) ==
  addNodeWithId(generateUniqueId(acc, label), label, parentId, initialValue, depth, color)

\* nodeValues[level2Id] += nodeValues[policyId]; n is the outcome of addNode
partPolicy(n, level2Id) == addValue(n.acc, level2Id, n.id)

RECURSIVE partPolicies(_, _, _, _)
partPolicies(acc, level2Id, policies, i) ==
  IF i > Len(policies)
  THEN acc
  ELSE partPolicies(
         partPolicy(addNode(acc, policies[i], level2Id, 1, 3,
                            field(COLOR_PALETTES_BY_GROUP[acc.nodeGroupColor[level2Id]],
                                  "level3")),
                    level2Id),
         level2Id, policies, i + 1)

\* nodeGroupColor[level2Id] = nodeGroupColor[level1Id], the statements, then
\* nodeValues[level1Id] += nodeValues[level2Id]
partSubGroup(n, level1Id, sub) ==
  LET a1 == [n.acc EXCEPT !.nodeGroupColor =
                            (n.id :> n.acc.nodeGroupColor[level1Id]) @@ @]
      a2 == partPolicies(a1, n.id, sub.policies, 1)
  IN  addValue(a2, level1Id, n.id)

RECURSIVE partLevel2(_, _, _, _)
partLevel2(acc, level1Id, subs, j) ==
  IF j > Len(subs)
  THEN acc
  ELSE partLevel2(
         partSubGroup(addNode(acc, subs[j].label, level1Id, 0, 2,
                              field(COLOR_PALETTES_BY_GROUP[acc.nodeGroupColor[level1Id]],
                                    "level2")),
                      level1Id, subs[j]),
         level1Id, subs, j + 1)

\* partGroup that files every group under one fixed palette entry
partGroup_fixedGroup(n, rootId, group) ==
  LET a1 == [n.acc EXCEPT !.nodeGroupColor =
                            (n.id :> <<"Fiscal", "sustainability">>) @@ @]
      a2 == partLevel2(a1, n.id, group.subs, 1)
  IN  addValue(a2, rootId, n.id)

\* nodeGroupColor[level1Id] = level1Label, the sub-groups, then
\* nodeValues[rootId] += nodeValues[level1Id]
partGroup(n, rootId, group) ==
  LET a1 == [n.acc EXCEPT !.nodeGroupColor = (n.id :> group.label) @@ @]
      a2 == partLevel2(a1, n.id, group.subs, 1)
  IN  addValue(a2, rootId, n.id)

\* COLOR_PALETTES_BY_GROUP[level1Label].level1 throws a TypeError for a
\* group label that is not a key of the table; the run ends there
RECURSIVE partLevel1(_, _, _, _)
partLevel1(acc, rootId, groups, k) ==
  IF k > Len(groups)
  THEN acc
  ELSE IF groups[k].label \notin DOMAIN COLOR_PALETTES_BY_GROUP
  THEN [acc EXCEPT !.thrown = TRUE]
  ELSE partLevel1(
         partGroup(addNode(acc, groups[k].label, rootId, 0, 1,
                           field(COLOR_PALETTES_BY_GROUP[groups[k].label], "level1")),
                   rootId, groups[k]),
         rootId, groups, k + 1)

\* the groups below the root node n
partRoot(n, dataTree) == partLevel1(n.acc, n.id, dataTree.groups, 1)

\* the run that starts from the given local variables
partTransformFrom(locals, dataTree) ==
  IF dataTree.root \notin DOMAIN COLOR_PALETTES_BY_GROUP
  THEN [locals EXCEPT !.thrown = TRUE]
  ELSE partRoot(addNode(locals, dataTree.root, "", 0, 0,
                        field(COLOR_PALETTES_BY_GROUP[dataTree.root], "level0")),
                dataTree)

partTransform(dataTree) == partTransformFrom(newLocals(EmptyAcc), dataTree)

\* transformDataForSunburst of the given source file: the local variables
\* at the return statement, or at the throw
transformRun(v, dataTree) ==
  IF v = "App.js" THEN appTransform(dataTree) ELSE partTransform(dataTree)

\* a call made after an earlier call has returned with the local variables
\* left
transformRunAfter(left, v, dataTree) ==
  IF v = "App.js"
  THEN appTransformFrom(newLocals(left), dataTree)
  ELSE partTransformFrom(newLocals(left), dataTree)

transformDataForSunburst(v, dataTree) == result(transformRun(v, dataTree))

(***************************************************************************)
(* Breadcrumbs (App.js).  The while loop of getBreadCrumbs ends when it    *)
(* meets a node of depth 0.  A walk that has taken more steps than the     *)
(* index has nodes has revisited a node and never ends; a walk that steps  *)
(* onto an id without an entry throws.                                     *)
(***************************************************************************)
RECURSIVE crumbLoop(_, _, _, _)
crumbLoop(nodeInfo, currentId, crumbs, steps) ==
  IF currentId \notin DOMAIN nodeInfo
  THEN [outcome |-> "throws", breadcrumbs |-> crumbs]
  ELSE IF nodeInfo[currentId].depth > 0
  THEN IF steps > Cardinality(DOMAIN nodeInfo)
       THEN [outcome |-> "diverges", breadcrumbs |-> crumbs]
       ELSE crumbLoop(nodeInfo, nodeInfo[currentId].parentId,
                      <<nodeInfo[currentId].label>> \o crumbs, steps + 1)
  ELSE [outcome |-> "returns", breadcrumbs |-> crumbs]

\* getBreadCrumbs with push in place of unshift
getBreadCrumbs_push(nodeInfo, currentId) ==
  LET b == crumbLoop(nodeInfo, currentId, <<>>, 0)
  IN  [b EXCEPT !.breadcrumbs = [i \in 1..Len(@) |-> @[Len(@) + 1 - i]]]

getBreadCrumbs(nodeInfo, currentId) == crumbLoop(nodeInfo, currentId, <<>>, 0)

(***************************************************************************)
(* The click handler, as a function of the event and of the state that the *)
(* handler's render has captured.                                          *)
(***************************************************************************)
NoPoints == [type |-> "plotly_click", points |-> <<>>]
ClickOn(id) == [type |-> "plotly_click", points |-> <<[id |-> id]>>]

NodeIds == {"node-" \o ToString(k) : k \in 0..(MaxNodes + 1)}
Events == {NoPoints} \cup {ClickOn(id) : id \in NodeIds}

\* the entries of lastEvent that are not chart clicks
NoEvent == [type |-> "none", points |-> <<>>]
MountEvent == [type |-> "mount", points |-> <<>>]
CloseEvent == [type |-> "close", points |-> <<>>]

\* closePopoutTable without setShowPopoutTable(false)
closePopoutTable_keepsFlag(nav) == [nav EXCEPT !.popoutTableRows = <<>>]

\* closePopoutTable without setPopoutTableRows([])
closePopoutTable_keepsRows(nav) == [nav EXCEPT !.showPopoutTable = FALSE]

closePopoutTable(nav) ==
  [nav EXCEPT !.showPopoutTable = FALSE, !.popoutTableRows = <<>>]

\* handlePlotClick without the zoom-out branches: a click on the focus keeps it
handlePlotClick_noCollapse(eventData, td, nav) ==
  IF Len(eventData.points) > 0
  THEN LET clickedNodeId == eventData.points[1].id
           rootId == IF Len(td.ids) > 0 THEN td.ids[1] ELSE Undefined
       IN  IF clickedNodeId \in DOMAIN td.nodeInfo
           THEN LET clickedNodeInfo == td.nodeInfo[clickedNodeId]
                IN  CASE clickedNodeInfo.depth = 0 ->
                           closePopoutTable([nav EXCEPT !.currentLevelId = clickedNodeId])
                      [] clickedNodeInfo.depth = 1 ->
                           closePopoutTable(
                             IF nav.currentLevelId = clickedNodeId
                             THEN nav
                             ELSE [nav EXCEPT !.currentLevelId = clickedNodeId])
                      [] clickedNodeInfo.depth = 2 ->
                           closePopoutTable(
                             IF nav.currentLevelId = clickedNodeId
                             THEN nav
                             ELSE [nav EXCEPT !.currentLevelId = clickedNodeId])
                      [] clickedNodeInfo.depth = 3 ->
                           [nav EXCEPT !.popoutTableRows = generateSampleRows(6, 80),
                                       !.showPopoutTable = TRUE]
                      [] OTHER -> nav
           ELSE nav
  ELSE nav


\* handlePlotClick that zooms in only on a child of the focus
handlePlotClick_childOnly(eventData, td, nav) ==
  IF Len(eventData.points) > 0
  THEN LET clickedNodeId == eventData.points[1].id
           rootId == IF Len(td.ids) > 0 THEN td.ids[1] ELSE Undefined
       IN  IF clickedNodeId \in DOMAIN td.nodeInfo
           THEN LET clickedNodeInfo == td.nodeInfo[clickedNodeId]
                IN  CASE clickedNodeInfo.depth = 0 ->
                           closePopoutTable([nav EXCEPT !.currentLevelId = clickedNodeId])
                      [] clickedNodeInfo.depth = 1 ->
                           closePopoutTable(
                             IF nav.currentLevelId = clickedNodeId
                             THEN [nav EXCEPT !.currentLevelId = rootId]
                             ELSE IF clickedNodeInfo.parentId = nav.currentLevelId
                                  THEN [nav EXCEPT !.currentLevelId = clickedNodeId]
                                  ELSE nav)
                      [] clickedNodeInfo.depth = 2 ->
                           closePopoutTable(
                             IF nav.currentLevelId = clickedNodeId
                             THEN [nav EXCEPT !.currentLevelId =
                                                td.nodeInfo[clickedNodeId].parentId]
                             ELSE IF clickedNodeInfo.parentId = nav.currentLevelId
                                  THEN [nav EXCEPT !.currentLevelId = clickedNodeId]
                                  ELSE nav)
                      [] clickedNodeInfo.depth = 3 ->
                           [nav EXCEPT !.popoutTableRows = generateSampleRows(6, 80),
                                       !.showPopoutTable = TRUE]
                      [] OTHER -> nav
           ELSE nav
  ELSE nav


\* handlePlotClick whose root branch forgets closePopoutTable()
handlePlotClick_rootKeepsPanel(eventData, td, nav) ==
  IF Len(eventData.points) > 0
  THEN LET clickedNodeId == eventData.points[1].id
           rootId == IF Len(td.ids) > 0 THEN td.ids[1] ELSE Undefined
       IN  IF clickedNodeId \in DOMAIN td.nodeInfo
           THEN LET clickedNodeInfo == td.nodeInfo[clickedNodeId]
                IN  CASE clickedNodeInfo.depth = 0 ->
                           [nav EXCEPT !.currentLevelId = clickedNodeId]
                      [] clickedNodeInfo.depth = 1 ->
                           closePopoutTable(
                             IF nav.currentLevelId = clickedNodeId
                             THEN [nav EXCEPT !.currentLevelId = rootId]
                             ELSE [nav EXCEPT !.currentLevelId = clickedNodeId])
                      [] clickedNodeInfo.depth = 2 ->
                           closePopoutTable(
                             IF nav.currentLevelId = clickedNodeId
                             THEN [nav EXCEPT !.currentLevelId =
                                                td.nodeInfo[clickedNodeId].parentId]
                             ELSE [nav EXCEPT !.currentLevelId = clickedNodeId])
                      [] clickedNodeInfo.depth = 3 ->
                           [nav EXCEPT !.popoutTableRows = generateSampleRows(6, 80),
                                       !.showPopoutTable = TRUE]
                      [] OTHER -> nav
           ELSE nav
  ELSE nav


\* handlePlotClick that treats an id without an entry as the root
handlePlotClick_noLookupCheck(eventData, td, nav) ==
  IF Len(eventData.points) > 0
  THEN LET clickedNodeId == eventData.points[1].id
           rootId == IF Len(td.ids) > 0 THEN td.ids[1] ELSE Undefined
       IN  IF clickedNodeId \in DOMAIN td.nodeInfo
           THEN LET clickedNodeInfo == td.nodeInfo[clickedNodeId]
                IN  CASE clickedNodeInfo.depth = 0 ->
                           closePopoutTable([nav EXCEPT !.currentLevelId = clickedNodeId])
                      [] clickedNodeInfo.depth = 1 ->
                           closePopoutTable(
                             IF nav.currentLevelId = clickedNodeId
                             THEN [nav EXCEPT !.currentLevelId = rootId]
                             ELSE [nav EXCEPT !.currentLevelId = clickedNodeId])
                      [] clickedNodeInfo.depth = 2 ->
                           closePopoutTable(
                             IF nav.currentLevelId = clickedNodeId
                             THEN [nav EXCEPT !.currentLevelId =
                                                td.nodeInfo[clickedNodeId].parentId]
                             ELSE [nav EXCEPT !.currentLevelId = clickedNodeId])
                      [] clickedNodeInfo.depth = 3 ->
                           [nav EXCEPT !.popoutTableRows = generateSampleRows(6, 80),
                                       !.showPopoutTable = TRUE]
                      [] OTHER -> nav
           ELSE closePopoutTable([nav EXCEPT !.currentLevelId = rootId])
  ELSE nav


\* handlePlotClick whose depth-2 branch zooms out to a property that the
\* entries of nodeInfo do not have (parent in place of parentId)
handlePlotClick_zoomsToMissing(eventData, td, nav) ==
  IF Len(eventData.points) > 0
  THEN LET clickedNodeId == eventData.points[1].id
           rootId == IF Len(td.ids) > 0 THEN td.ids[1] ELSE Undefined
       IN  IF clickedNodeId \in DOMAIN td.nodeInfo
           THEN LET clickedNodeInfo == td.nodeInfo[clickedNodeId]
                IN  CASE clickedNodeInfo.depth = 0 ->
                           closePopoutTable([nav EXCEPT !.currentLevelId = clickedNodeId])
                      [] clickedNodeInfo.depth = 1 ->
                           closePopoutTable(
                             IF nav.currentLevelId = clickedNodeId
                             THEN [nav EXCEPT !.currentLevelId = rootId]
                             ELSE [nav EXCEPT !.currentLevelId = clickedNodeId])
                      [] clickedNodeInfo.depth = 2 ->
                           closePopoutTable(
                             IF nav.currentLevelId = clickedNodeId
                             THEN [nav EXCEPT !.currentLevelId = Undefined]
                             ELSE [nav EXCEPT !.currentLevelId = clickedNodeId])
                      [] clickedNodeInfo.depth = 3 ->
                           [nav EXCEPT !.popoutTableRows = generateSampleRows(6, 80),
                                       !.showPopoutTable = TRUE]
                      [] OTHER -> nav
           ELSE nav
  ELSE nav

\* handlePlotClick whose depth-2 branch zooms out to the root id
handlePlotClick_toggleToRoot(eventData, td, nav) ==
  IF Len(eventData.points) > 0
  THEN LET clickedNodeId == eventData.points[1].id
           rootId == IF Len(td.ids) > 0 THEN td.ids[1] ELSE Undefined
       IN  IF clickedNodeId \in DOMAIN td.nodeInfo
           THEN LET clickedNodeInfo == td.nodeInfo[clickedNodeId]
                IN  CASE clickedNodeInfo.depth = 0 ->
                           closePopoutTable([nav EXCEPT !.currentLevelId = clickedNodeId])
                      [] clickedNodeInfo.depth = 1 ->
                           closePopoutTable(
                             IF nav.currentLevelId = clickedNodeId
                             THEN [nav EXCEPT !.currentLevelId = rootId]
                             ELSE [nav EXCEPT !.currentLevelId = clickedNodeId])
                      [] clickedNodeInfo.depth = 2 ->
                           closePopoutTable(
                             IF nav.currentLevelId = clickedNodeId
                             THEN [nav EXCEPT !.currentLevelId = rootId]
                             ELSE [nav EXCEPT !.currentLevelId = clickedNodeId])
                      [] clickedNodeInfo.depth = 3 ->
                           [nav EXCEPT !.popoutTableRows = generateSampleRows(6, 80),
                                       !.showPopoutTable = TRUE]
                      [] OTHER -> nav
           ELSE nav
  ELSE nav

handlePlotClick(eventData, td, nav) ==
  IF Len(eventData.points) > 0
  THEN LET clickedNodeId == eventData.points[1].id
           rootId == IF Len(td.ids) > 0 THEN td.ids[1] ELSE Undefined
       IN  IF clickedNodeId \in DOMAIN td.nodeInfo
           THEN LET clickedNodeInfo == td.nodeInfo[clickedNodeId]
                IN  CASE clickedNodeInfo.depth = 0 ->
                           closePopoutTable([nav EXCEPT !.currentLevelId = clickedNodeId])
                      [] clickedNodeInfo.depth = 1 ->
                           closePopoutTable(
                             IF nav.currentLevelId = clickedNodeId
                             THEN [nav EXCEPT !.currentLevelId = rootId]
                             ELSE [nav EXCEPT !.currentLevelId = clickedNodeId])
                      [] clickedNodeInfo.depth = 2 ->
                           closePopoutTable(
                             IF nav.currentLevelId = clickedNodeId
                             THEN [nav EXCEPT !.currentLevelId =
                                                td.nodeInfo[clickedNodeId].parentId]
                             ELSE [nav EXCEPT !.currentLevelId = clickedNodeId])
                      [] clickedNodeInfo.depth = 3 ->
                           [nav EXCEPT !.popoutTableRows = generateSampleRows(6, 80),
                                       !.showPopoutTable = TRUE]
                      [] OTHER -> nav
           ELSE nav
  ELSE nav

(***************************************************************************)
(* transformDataForSunburst on a structure with a cycle.  The hierarchy is *)
(* rawDataTree with one slot that holds, in place of its own value, a      *)
(* reference to an object or array that encloses the slot.  The values of  *)
(* the structure are named by where they stand: the object dataTree, the   *)
(* object dataTree[rootLabel] ("root"), the object of group k, the array   *)
(* of sub-group j of group k ("policies"), and the strings in the arrays.  *)
(***************************************************************************)
JsValue(kind, obj, k, j) == [kind |-> kind, obj |-> obj, k |-> k, j |-> j]

\* no slot holds a reference back
NoBack == [path |-> <<>>, to |-> "none"]

\* the object or array that the reference of the slot points to
target(back) ==
  CASE back.to = "dataTree" -> JsValue("object", "dataTree", 0, 0)
    [] back.to = "root" -> JsValue("object", "root", 0, 0)
    [] back.to = "group" -> JsValue("object", "group", back.path[1], 0)
    [] OTHER -> JsValue("array", "policies", back.path[1], back.path[2])

\* the slot of v at its m-th key, and the value the hierarchy has there
slot(v, m) ==
  CASE v.obj = "dataTree" -> <<>>
    [] v.obj = "root" -> <<m>>
    [] v.obj = "group" -> <<v.k, m>>
    [] OTHER -> <<v.k, v.j, m>>

natural(v, m) ==
  CASE v.obj = "dataTree" -> JsValue("object", "root", 0, 0)
    [] v.obj = "root" -> JsValue("object", "group", m, 0)
    [] v.obj = "group" -> JsValue("array", "policies", v.k, m)
    [] OTHER -> JsValue("string", "string", 0, 0)

\* v[key], key being the m-th key of v
member(back, v, m) ==
  IF back.to # "none" /\ back.path = slot(v, m) THEN target(back) ELSE natural(v, m)

\* the number of keys of v that for...in and forEach visit
size(dataTree, v) ==
  CASE v.obj = "dataTree" -> 1
    [] v.obj = "root" -> Len(dataTree.groups)
    [] v.obj = "group" -> Len(dataTree.groups[v.k].subs)
    [] v.obj = "policies" -> Len(dataTree.groups[v.k].subs[v.j].policies)
    [] OTHER -> 0

\* the m-th key of the object v
keyLabel(dataTree, v, m) ==
  CASE v.obj = "dataTree" -> dataTree.root
    [] v.obj = "root" -> dataTree.groups[m].label
    [] OTHER -> dataTree.groups[v.k].subs[m].label

\* policies.forEach(...): a TypeError unless policies is an array
forEachThrows(policies) == policies.kind # "array"

\* wrapText(text, TEXT_WRAP_MAX_LENGTH) of a value that is not a string:
\* an object has no length, the comparison fails and text.split is not a
\* function; an array with at most TEXT_WRAP_MAX_LENGTH items is returned
wrapThrows(dataTree, text) ==
  \/ text.kind = "object"
  \/ text.kind = "array" /\ size(dataTree, text) > TEXT_WRAP_MAX_LENGTH

\* a loop that stays on the key it has just visited
nextKey_same(m) == m

\* for...in and forEach move on to the next key
nextKey(m) == m + 1

\* no call of transformDataForSunburst under observation
NoFlatten ==
  [back |-> NoBack, pc |-> "idle", level1Data |-> JsValue("none", "none", 0, 0),
   level1 |-> 0, level2Data |-> JsValue("none", "none", 0, 0), level2 |-> 0,
   policies |-> JsValue("none", "none", 0, 0), policy |-> 0]

(***************************************************************************)
(* The view.                                                               *)
(***************************************************************************)
\* no call of wrapText under observation
NoCall == [text |-> <<"">>, maxLength |-> 0, returned |-> FALSE, value |-> <<>>]

NoData ==
  [ ids |-> <<>>, labels |-> <<>>, parents |-> <<>>, values |-> <<>>,
    colors |-> <<>>, nodeInfo |-> NoMap, textColors |-> <<>> ]

Nav == [ currentLevelId |-> currentLevelId,
         showPopoutTable |-> showPopoutTable,
         popoutTableRows |-> popoutTableRows ]

Snapshot == [ currentLevelId |-> currentLevelId,
              showPopoutTable |-> showPopoutTable,
              popoutTableRows |-> popoutTableRows,
              breadcrumbs |-> breadcrumbs,
              status |-> status ]

\* the entries of lastEvent for the chart's onInitialized callback and for
\* the removal of the view from the page
InitializedEvent == [type |-> "initialized", points |-> <<>>]
UnmountEvent == [type |-> "unmount", points |-> <<>>]

\* {transformedData.ids.length > 0 ? <Plot .../> : <div>Loading chart data...</div>}
\* with the chart always rendered
chartRendered_always(td) == TRUE

\* {transformedData.ids.length > 0 ? <Plot .../> : <div>Loading chart data...</div>}
chartRendered(td) == Len(td.ids) > 0

\* The function handlePlotClick of one render: a new closure per render,
\* which has captured that render's focus and index.  render is the age of
\* the render that made it: 0 the current one, 1 the one before, 2 any
\* older one.
closure(age, focus, td) ==
  [render |-> age, currentLevelId |-> focus, indexed |-> Len(td.ids) > 0]

\* the registrations of the graphDiv, with the count of those added and
\* removed while one event is handled
NoCalls == [added |-> 0, removed |-> 0]
Registry ==
  [graphDivRef |-> graphDivRef, listeners |-> listeners, added |-> 0, removed |-> 0]

\* a new render: every closure made so far is one render older
newRender(reg) ==
  [reg EXCEPT !.listeners =
     [i \in DOMAIN reg.listeners |->
        [reg.listeners[i] EXCEPT !.render = IF @ < 2 THEN @ + 1 ELSE 2]]]

\* graphDiv.removeListener('plotly_click', h): one registration of h, the
\* one added last, goes
removeListener(ls, h) ==
  LET at == {i \in DOMAIN ls : ls[i] = h}
  IN  IF at = {}
      THEN ls
      ELSE LET m == CHOOSE i \in at : \A j \in at : j <= i
           IN  SubSeq(ls, 1, m - 1) \o SubSeq(ls, m + 1, Len(ls))

\* the callback of onInitialized, which registers the handler of the
\* render that is current when the chart reports that it is ready
onInitialized(reg, h) ==
  [reg EXCEPT !.graphDivRef = TRUE,
              !.listeners = Append(@, h),
              !.added = @ + 1]

\* the cleanup returned by the listener effect of the render before
listenerCleanup(reg, hOld) ==
  IF reg.graphDivRef
  THEN [reg EXCEPT !.listeners = removeListener(@, hOld),
                   !.removed = @ + (Len(reg.listeners)
                                     - Len(removeListener(reg.listeners, hOld)))]
  ELSE reg

\* the body of the listener effect
listenerSetup(reg, hNew) ==
  IF reg.graphDivRef
  THEN [reg EXCEPT !.listeners = Append(@, hNew), !.added = @ + 1]
  ELSE reg

\* One render and its listener effect, whose dependency handlePlotClick is
\* new in every render: the cleanup of the render before, then the body.
\* The chart may report that it is ready after the commit and before the
\* effect (initBefore) or after the effect (initAfter).
renderCommit(reg, initBefore, initAfter, hOld, hNew) ==
  LET committed == IF initBefore
                   THEN onInitialized(newRender(reg), hNew)
                   ELSE newRender(reg)
      done == listenerSetup(listenerCleanup(committed, hOld), hNew)
  IN  IF initAfter THEN onInitialized(done, hNew) ELSE done

\* when the chart reports that it is ready, relative to the renders of the
\* mount: in a later task, or between the commits and the effects
InitTimes == {"later", "afterCommit1", "afterEffect1", "afterCommit2"}

\* the branches of handlePlotClick that set state; the arrays they set are
\* new ones, so that a render follows
setsState(eventData, td) ==
  /\ Len(eventData.points) > 0
  /\ eventData.points[1].id \in DOMAIN td.nodeInfo
  /\ td.nodeInfo[eventData.points[1].id].depth \in 0..3

\* the branches of handlePlotClick that call setCurrentLevelId
setsFocus(eventData, td) ==
  /\ Len(eventData.points) > 0
  /\ eventData.points[1].id \in DOMAIN td.nodeInfo
  /\ td.nodeInfo[eventData.points[1].id].depth \in 0..2

\* One registered handler h handles the event: it compares the clicked id
\* with the focus of its own render and looks the id up in the index of its
\* own render; the values it sets replace those set before it, the state
\* it does not set stays as the handlers before have left it.
handle(h, eventData, td, nav) ==
  LET set == handlePlotClick(eventData, IF h.indexed THEN td ELSE NoData,
                             [nav EXCEPT !.currentLevelId = h.currentLevelId])
  IN  IF h.indexed /\ setsFocus(eventData, td)
      THEN set
      ELSE [set EXCEPT !.currentLevelId = nav.currentLevelId]

\* graphDiv.emit('plotly_click', eventData): the listeners from the i-th on
RECURSIVE emit(_, _, _, _, _)
emit(ls, i, eventData, td, nav) ==
  IF i > Len(ls)
  THEN nav
  ELSE emit(ls, i + 1, eventData, td, handle(ls[i], eventData, td, nav))

Registered(reg) ==
  /\ graphDivRef' = reg.graphDivRef
  /\ listeners' = reg.listeners
  /\ lastCalls' = [added |-> reg.added, removed |-> reg.removed]

Init ==
  /\ variant \in Variants
  /\ rawDataTree \in Hierarchies
  /\ status = "loading"
  /\ transformedData = NoData
  /\ currentLevelId = ""
  /\ showPopoutTable = FALSE
  /\ popoutTableRows = <<>>
  /\ breadcrumbs = <<>>
  /\ lastEvent = NoEvent
  /\ prev = Snapshot
  /\ wrapCall = NoCall
  /\ graphDivRef = FALSE
  /\ listeners = <<>>
  /\ lastCalls = NoCalls
  /\ flattenCall = NoFlatten

\* The commit of the state left by a handler (rendered: the handler has set
\* state), followed by the effects of the render: the one with the
\* dependency [currentLevelId] (App.js only) runs when the focus has changed
\* and is not '', and sets the breadcrumbs, which makes a second render; the
\* listener effect runs in every render.  An effect that never returns
\* leaves the page hung; one that throws takes the view down.
Commit(td, nav, okStatus, rendered, initTime) ==
  /\ transformedData' = td
  /\ currentLevelId' = nav.currentLevelId
  /\ showPopoutTable' = nav.showPopoutTable
  /\ popoutTableRows' = nav.popoutTableRows
  /\ initTime # "later" => (rendered /\ ~graphDivRef /\ chartRendered(td))
  /\ IF ~rendered
     THEN /\ breadcrumbs' = breadcrumbs /\ status' = okStatus
          /\ Registered(Registry)
     ELSE IF variant = "App.js" /\ nav.currentLevelId # currentLevelId
                                /\ nav.currentLevelId # ""
     THEN LET b == getBreadCrumbs(td.nodeInfo, nav.currentLevelId)
          IN  CASE b.outcome = "returns" ->
                     /\ breadcrumbs' = b.breadcrumbs /\ status' = okStatus
                     /\ Registered(
                          renderCommit(
                            renderCommit(Registry,
                                         initTime = "afterCommit1",
                                         initTime = "afterEffect1",
                                         closure(1, currentLevelId, transformedData),
                                         closure(0, nav.currentLevelId, td)),
                            initTime = "afterCommit2", FALSE,
                            closure(1, nav.currentLevelId, td),
                            closure(0, nav.currentLevelId, td)))
                [] b.outcome = "diverges" ->
                     /\ breadcrumbs' = breadcrumbs /\ status' = "hung"
                     /\ initTime = "later"
                     /\ Registered(
                          listenerCleanup(newRender(Registry),
                                          closure(1, currentLevelId, transformedData)))
                [] OTHER ->
                     /\ breadcrumbs' = breadcrumbs /\ status' = "crashed"
                     /\ initTime = "later"
                     /\ Registered(
                          listenerCleanup(newRender(Registry),
                                          closure(1, currentLevelId, transformedData)))
     ELSE /\ breadcrumbs' = breadcrumbs /\ status' = okStatus
          /\ initTime # "afterCommit2"
          /\ Registered(
               renderCommit(Registry,
                            initTime = "afterCommit1",
                            initTime = "afterEffect1",
                            closure(1, currentLevelId, transformedData),
                            closure(0, nav.currentLevelId, td)))
  /\ UNCHANGED <<variant, rawDataTree, wrapCall, flattenCall>>

\* the mount effect without setCurrentLevelId(data.ids[0])
mountNav_noFocus(ids, nav) == nav

\* if (data.ids.length > 0) setCurrentLevelId(data.ids[0])
mountNav(ids, nav) ==
  IF Len(ids) > 0 THEN [nav EXCEPT !.currentLevelId = ids[1]] ELSE nav

\* useEffect(() => {...}, []): the one flattening run; its two state
\* updates are committed by one render
Mount ==
  /\ status = "loading"
  /\ \E run \in {transformRun(variant, rawDataTree)} :
       IF run.thrown
       THEN /\ status' = "crashed"
            /\ UNCHANGED <<variant, rawDataTree, transformedData, currentLevelId,
                           showPopoutTable, popoutTableRows, breadcrumbs, wrapCall,
                           graphDivRef, listeners, lastCalls, flattenCall>>
       ELSE \E initTime \in InitTimes :
              Commit(result(run), mountNav(run.ids, Nav), "ready", TRUE, initTime)
  /\ lastEvent' = MountEvent
  /\ prev' = Snapshot

\* onInitialized of the chart, in a task of its own after the renders of
\* the mount
ChartInitialized ==
  /\ status \in {"loading", "ready"}
  /\ chartRendered(transformedData)
  /\ ~graphDivRef
  /\ Registered(onInitialized(Registry,
                              closure(0, currentLevelId, transformedData)))
  /\ lastEvent' = InitializedEvent
  /\ prev' = Snapshot
  /\ UNCHANGED <<variant, rawDataTree, status, transformedData, currentLevelId,
                 showPopoutTable, popoutTableRows, breadcrumbs, wrapCall,
                 flattenCall>>

\* a click handler that stores an empty result in place of the index
PlotClick_clearsData(eventData) ==
  /\ status \in {"loading", "ready"}
  /\ listeners # <<>>
  /\ \E nav \in {emit(listeners, 1, eventData, transformedData, Nav)} :
       Commit(NoData, nav, status,
              setsState(eventData, transformedData), "later")
  /\ lastEvent' = eventData
  /\ prev' = Snapshot

\* a plotly_click event that the graphDiv emits to its listeners, in the
\* order of their registration; the state they have set is committed by
\* one render
PlotClick(eventData) ==
  /\ status \in {"loading", "ready"}
  /\ listeners # <<>>
  /\ \E nav \in {emit(listeners, 1, eventData, transformedData, Nav)} :
       Commit(transformedData, nav, status,
              setsState(eventData, transformedData), "later")
  /\ lastEvent' = eventData
  /\ prev' = Snapshot

\* a close button that also moves the focus to the root id
ClosePopoutTable_resetsFocus ==
  /\ status = "ready"
  /\ showPopoutTable
  /\ Commit(transformedData,
            closePopoutTable([Nav EXCEPT !.currentLevelId = transformedData.ids[1]]),
            status, TRUE, "later")
  /\ lastEvent' = CloseEvent
  /\ prev' = Snapshot

\* onClick of the modal overlay and of its close button
ClosePopoutTable ==
  /\ status = "ready"
  /\ showPopoutTable
  /\ Commit(transformedData, closePopoutTable(Nav), status, TRUE, "later")
  /\ lastEvent' = CloseEvent
  /\ prev' = Snapshot

\* The view is taken off the page: the chart calls onPurge, then the
\* cleanup of the last listener effect runs.
Unmount ==
  /\ status = "ready"
  /\ status' = "unmounted"
  /\ Registered(
       listenerCleanup(
         listenerCleanup(Registry, closure(0, currentLevelId, transformedData)),
         closure(0, currentLevelId, transformedData)))
  /\ lastEvent' = UnmountEvent
  /\ prev' = Snapshot
  /\ UNCHANGED <<variant, rawDataTree, transformedData, currentLevelId,
                 showPopoutTable, popoutTableRows, breadcrumbs, wrapCall,
                 flattenCall>>

Next ==
  \/ Mount
  \/ ChartInitialized
  \/ \E eventData \in Events : PlotClick(eventData)
  \/ ClosePopoutTable
  \/ Unmount

Spec == Init /\ [][Next]_vars

\* the flattening of a hierarchy whose labels may repeat, under another
\* parent, at another level or within one statement list
InitAnyLabels ==
  /\ variant \in Variants
  /\ rawDataTree \in HierarchiesOver(Labels, {}, FALSE)
  /\ status = "loading"
  /\ transformedData = NoData
  /\ currentLevelId = ""
  /\ showPopoutTable = FALSE
  /\ popoutTableRows = <<>>
  /\ breadcrumbs = <<>>
  /\ lastEvent = NoEvent
  /\ prev = Snapshot
  /\ wrapCall = NoCall
  /\ graphDivRef = FALSE
  /\ listeners = <<>>
  /\ lastCalls = NoCalls
  /\ flattenCall = NoFlatten

SpecAnyLabels == InitAnyLabels /\ [][Mount]_vars

(***************************************************************************)
(* Properties of the click handler and of the breadcrumbs, checked under   *)
(* Spec.                                                                   *)
(***************************************************************************)
Index == transformedData.nodeInfo
RootId == transformedData.ids[1]
IsClick(e) == e.type = "plotly_click" /\ Len(e.points) > 0
ClickedId(e) == e.points[1].id

\* the last event was a click on a node of the index with one of the depths
ClickedAtDepth(depths) ==
  /\ IsClick(lastEvent)
  /\ ClickedId(lastEvent) \in DOMAIN Index
  /\ Index[ClickedId(lastEvent)].depth \in depths

\* C1: a click on a node of depth 1 or 2 that is the focus moves the focus
\* to the root id (depth 1) or to the node's parent (depth 2), and the focus
\* it leaves differs from the one it found.
C1_ToggleCollapse ==
  (ClickedAtDepth({1, 2}) /\ prev.currentLevelId = ClickedId(lastEvent))
  => /\ currentLevelId = IF Index[ClickedId(lastEvent)].depth = 1
                         THEN RootId
                         ELSE Index[ClickedId(lastEvent)].parentId
     /\ currentLevelId # prev.currentLevelId

C1_Witness ==
  /\ ClickedAtDepth({2})
  /\ prev.currentLevelId = ClickedId(lastEvent)
  /\ currentLevelId = Index[ClickedId(lastEvent)].parentId
  /\ currentLevelId # RootId

\* C2: a click on a node of depth 1 or 2 that is not the focus makes it the
\* focus, wherever the focus was.
C2_ZoomIn ==
  (ClickedAtDepth({1, 2}) /\ prev.currentLevelId # ClickedId(lastEvent))
  => currentLevelId = ClickedId(lastEvent)

\* the focus was a depth-2 node of another group
C2_Witness ==
  /\ ClickedAtDepth({2})
  /\ prev.currentLevelId \in DOMAIN Index
  /\ Index[prev.currentLevelId].depth = 2
  /\ Index[prev.currentLevelId].parentId # Index[ClickedId(lastEvent)].parentId
  /\ currentLevelId = ClickedId(lastEvent)

\* C3: a click on the node of depth 0 leaves the focus on the root id and
\* the panel closed and empty, and a second such click changes nothing.
C3_RootClick ==
  ClickedAtDepth({0})
  => /\ currentLevelId = RootId
     /\ ~showPopoutTable
     /\ popoutTableRows = <<>>
     /\ handlePlotClick(lastEvent, transformedData, Nav) = Nav

C3_Witness ==
  /\ ClickedAtDepth({0})
  /\ prev.showPopoutTable
  /\ prev.currentLevelId # RootId
  /\ currentLevelId = RootId
  /\ ~showPopoutTable

\* C4: a click on a node of depth 3 opens the panel with 6 rows of 80
\* characters each, keeps the focus, and a second such click changes nothing.
C4_LeafClick ==
  ClickedAtDepth({3})
  => /\ showPopoutTable
     /\ Len(popoutTableRows) = 6
     /\ \A i \in 1..Len(popoutTableRows) : popoutTableRows[i] = 80
     /\ currentLevelId = prev.currentLevelId
     /\ breadcrumbs = prev.breadcrumbs
     /\ handlePlotClick(lastEvent, transformedData, Nav) = Nav

C4_Witness ==
  /\ ClickedAtDepth({3})
  /\ ~prev.showPopoutTable
  /\ showPopoutTable
  /\ Len(popoutTableRows) = 6
  /\ currentLevelId # RootId

\* C5: a click event without points, or with an id that is not a key of the
\* index (the empty index of the first render included), leaves the focus,
\* the panel flag, the panel rows and the breadcrumbs as they were, and the
\* view keeps running.
C5_UnknownIdSafety ==
  /\ ( /\ lastEvent.type = "plotly_click"
       /\ (IsClick(lastEvent) => ClickedId(lastEvent) \notin DOMAIN Index) )
     => Snapshot = prev
  /\ \A e \in Events : handlePlotClick(e, NoData, Nav) = Nav

C5_Witness ==
  /\ IsClick(lastEvent)
  /\ ClickedId(lastEvent) \notin DOMAIN Index
  /\ status = "ready"
  /\ showPopoutTable
  /\ currentLevelId # RootId
  /\ Snapshot = prev

\* C6: after a click on a node of depth 0, 1 or 2 the panel flag is off and
\* the row list is empty, whether the focus moved or not.
C6_PanelReset ==
  ClickedAtDepth({0, 1, 2}) => (~showPopoutTable /\ popoutTableRows = <<>>)

C6_Witness ==
  /\ ClickedAtDepth({1, 2})
  /\ prev.showPopoutTable
  /\ Len(prev.popoutTableRows) = 6
  /\ ~showPopoutTable
  /\ popoutTableRows = <<>>

\* the label paths of the hierarchy, from a group down to each node below
\* the root
RECURSIVE PathsUnder(_, _)
PathsUnder(nodes, prefix) ==
  IF nodes = <<>> THEN {}
  ELSE LET here == Append(prefix, Head(nodes).label)
       IN  {here}
           \cup (IF "subs" \in DOMAIN Head(nodes)
                 THEN PathsUnder(Head(nodes).subs, here)
                 ELSE {Append(here, Head(nodes).policies[i]) :
                         i \in 1..Len(Head(nodes).policies)})
           \cup PathsUnder(Tail(nodes), prefix)

LabelPaths == PathsUnder(rawDataTree.groups, <<>>)

\* C7 (App.js): the breadcrumbs are the unwrapped labels on the way from the
\* group of the focus down to the focus, the root left out and the focus
\* included; they are empty while the focus is unset and when it is the root.
C7_Breadcrumbs ==
  variant = "App.js"
  => /\ currentLevelId = "" => breadcrumbs = <<>>
     /\ status = "ready"
        => /\ currentLevelId \in DOMAIN Index
           /\ Len(breadcrumbs) = Index[currentLevelId].depth
           /\ currentLevelId = RootId => breadcrumbs = <<>>
           /\ currentLevelId # RootId
              => /\ breadcrumbs \in LabelPaths
                 /\ breadcrumbs[Len(breadcrumbs)] = Index[currentLevelId].label

C7_Witness ==
  /\ variant = "App.js"
  /\ status = "ready"
  /\ ClickedAtDepth({2})
  /\ currentLevelId = ClickedId(lastEvent)
  /\ Len(breadcrumbs) = 2
  /\ breadcrumbs[2] = Index[currentLevelId].label
  /\ breadcrumbs[1] = Index[Index[currentLevelId].parentId].label
  /\ StrLength(breadcrumbs[2]) > TEXT_WRAP_MAX_LENGTH

(***************************************************************************)
(* Properties of the flattener.  Positions are those of the arrays in      *)
(* transformedData; the hierarchy in pre-order is what they are compared   *)
(* with.                                                                   *)
(***************************************************************************)
RECURSIVE PreOrderNodes(_, _)
PreOrderNodes(nodes, depth) ==
  IF nodes = <<>> THEN <<>>
  ELSE <<[label |-> Head(nodes).label, depth |-> depth]>>
       \o (IF "subs" \in DOMAIN Head(nodes)
           THEN PreOrderNodes(Head(nodes).subs, depth + 1)
           ELSE [i \in 1..Len(Head(nodes).policies) |->
                   [label |-> Head(nodes).policies[i], depth |-> depth + 1]])
       \o PreOrderNodes(Tail(nodes), depth)

PreOrder == <<[label |-> rawDataTree.root, depth |-> 0]>>
            \o PreOrderNodes(rawDataTree.groups, 1)

Flattened == Len(transformedData.ids) > 0
Positions == 1..Len(transformedData.ids)

RECURSIVE SumValues(_)
SumValues(positions) ==
  IF positions = {} THEN 0
  ELSE LET j == CHOOSE k \in positions : TRUE
       IN  transformedData.values[j] + SumValues(positions \ {j})

\* the positions whose parents entry is the id at position i
ChildPositions(i) ==
  {j \in Positions : transformedData.parents[j] = transformedData.ids[i]}

\* C8: in the returned arrays every statement has value 1, every other
\* node's value is the sum of the values of the entries whose parents entry
\* is that node, and the root's value is the number of statements of the
\* hierarchy; for any hierarchy, repeated labels included.
C8_ValueConservation ==
  Flattened
  => /\ Len(transformedData.values) = Len(PreOrder)
     /\ \A i \in Positions :
          IF PreOrder[i].depth = 3
          THEN transformedData.values[i] = 1
          ELSE transformedData.values[i] = SumValues(ChildPositions(i))
     /\ transformedData.values[1]
          = Cardinality({i \in 1..Len(PreOrder) : PreOrder[i].depth = 3})

\* the ids at the positions whose parents entry is x, in array order
RECURSIVE IdsWithParent(_, _)
IdsWithParent(x, i) ==
  IF i > Len(transformedData.ids) THEN <<>>
  ELSE (IF transformedData.parents[i] = x THEN <<transformedData.ids[i]>> ELSE <<>>)
       \o IdsWithParent(x, i + 1)

\* C9: for every id x, nodeInfo[x].children lists exactly the ids whose
\* parents entry is x, in traversal order; and every entry with a parent has
\* that parent as its parentId and occurs among the parent's children; for
\* any hierarchy, repeated labels included.
C9_IndexRoundTrip ==
  Flattened
  => /\ \A i \in Positions :
          Index[transformedData.ids[i]].children
            = IdsWithParent(transformedData.ids[i], 1)
     /\ \A i \in Positions :
          transformedData.parents[i] # ""
          => /\ Index[transformedData.ids[i]].parentId = transformedData.parents[i]
             /\ \E c \in DOMAIN Index[transformedData.parents[i]].children :
                  Index[transformedData.parents[i]].children[c] = transformedData.ids[i]

\* the position of an id, and whether position j lies in the subtree of
\* position i
PositionOf(id) == CHOOSE i \in Positions : transformedData.ids[i] = id

RECURSIVE InSubtree(_, _)
InSubtree(j, i) ==
  \/ j = i
  \/ /\ j > i
     /\ transformedData.parents[j] # ""
     /\ \E k \in 1..(j - 1) : transformedData.ids[k] = transformedData.parents[j]
     /\ InSubtree(PositionOf(transformedData.parents[j]), i)

\* C10: the six arrays have one length; position i of each describes the
\* i-th node of the hierarchy in pre-order; the root comes first with parent
\* ''; a node comes after its parent; the entries of a subtree are
\* contiguous.
C10_ParallelPreOrder ==
  Flattened
  => /\ Len(transformedData.labels) = Len(transformedData.ids)
     /\ Len(transformedData.parents) = Len(transformedData.ids)
     /\ Len(transformedData.values) = Len(transformedData.ids)
     /\ Len(transformedData.colors) = Len(transformedData.ids)
     /\ Len(transformedData.textColors) = Len(transformedData.ids)
     /\ Len(transformedData.ids) = Len(PreOrder)
     /\ \A i \in Positions :
          /\ Index[transformedData.ids[i]].label = PreOrder[i].label
          /\ Index[transformedData.ids[i]].depth = PreOrder[i].depth
          /\ transformedData.labels[i] = wrapText(PreOrder[i].label, TEXT_WRAP_MAX_LENGTH)
          /\ transformedData.parents[i] = Index[transformedData.ids[i]].parentId
     /\ transformedData.parents[1] = ""
     /\ PreOrder[1].depth = 0
     /\ \A i \in Positions \ {1} :
          \E j \in 1..(i - 1) : transformedData.ids[j] = transformedData.parents[i]
     /\ \A i \in Positions :
          LET subtree == {j \in Positions : InSubtree(j, i)}
          IN  subtree = i..(i + Cardinality(subtree) - 1)

\* two groups, the first with a sub-group that has a statement
C10_Witness ==
  /\ Flattened
  /\ Len(transformedData.ids) = 5
  /\ Cardinality(ChildPositions(1)) = 2
  /\ \E i \in Positions : PreOrder[i].depth = 3
  /\ transformedData.parents[Len(transformedData.ids)] = transformedData.ids[1]

(***************************************************************************)
(* Identifiers.                                                            *)
(***************************************************************************)
\* the labels met before position i of the traversal
LabelsBefore(i) == {PreOrder[j].label : j \in 1..(i - 1)}

\* C11: the first occurrence of a label gets node-k, k being the number of
\* distinct labels met before it (so node-0 for the root, and ids[i] =
\* node-i counting from 0 when no label repeats), and two positions have
\* the same id exactly when they have the same label.
C11_IdGeneration ==
  Flattened
  => /\ Len(transformedData.ids) = Len(PreOrder)
     /\ transformedData.ids[1] = "node-0"
     /\ \A i \in Positions :
          PreOrder[i].label \notin LabelsBefore(i)
          => transformedData.ids[i]
               = "node-" \o ToString(Cardinality(LabelsBefore(i)))
     /\ \A i, j \in Positions :
          (transformedData.ids[i] = transformedData.ids[j])
            <=> (PreOrder[i].label = PreOrder[j].label)

\* a label comes back after two other labels, and a fresh label follows it
C11_Witness ==
  /\ Flattened
  /\ \E i, j \in Positions :
       /\ i + 1 < j
       /\ PreOrder[i].label = PreOrder[j].label
       /\ transformedData.ids[i] = transformedData.ids[j]
       /\ transformedData.ids[j] # transformedData.ids[j - 1]
  /\ Cardinality(Range(transformedData.ids)) < Len(transformedData.ids)

WrapWords == {"", "a", "bb", "cccc"}

WrapTexts == UNION {[1..n -> WrapWords] : n \in 1..MaxWords}

InitWrap ==
  /\ variant = "App.js"
  /\ rawDataTree = [root |-> RootLabel, groups |-> <<>>]
  /\ status = "loading"
  /\ transformedData = NoData
  /\ currentLevelId = ""
  /\ showPopoutTable = FALSE
  /\ popoutTableRows = <<>>
  /\ breadcrumbs = <<>>
  /\ lastEvent = NoEvent
  /\ prev = Snapshot
  /\ graphDivRef = FALSE
  /\ listeners = <<>>
  /\ lastCalls = NoCalls
  /\ flattenCall = NoFlatten
  /\ \E text \in WrapTexts, maxLength \in 0..MaxLength :
       wrapCall = [text |-> text, maxLength |-> maxLength,
                   returned |-> FALSE, value |-> <<>>]

WrapText ==
  /\ ~wrapCall.returned
  /\ wrapCall' = [wrapCall EXCEPT
                    !.returned = TRUE,
                    !.value = wrapText(wrapCall.text, wrapCall.maxLength)]
  /\ UNCHANGED <<variant, rawDataTree, status, transformedData, currentLevelId,
                 showPopoutTable, popoutTableRows, breadcrumbs, lastEvent, prev,
                 graphDivRef, listeners, lastCalls, flattenCall>>

SpecWrap == InitWrap /\ [][WrapText]_vars

\* the lines of the returned string, the markers between them
Lines == wrapCall.value
Markers == Len(Lines) - 1

\* C13 as stated: a text of at most maxLength characters comes back
\* unchanged; a text of maxLength + 1 characters comes back with at least
\* one marker; every line of a longer text has at most maxLength characters
\* unless it is a single word longer than maxLength.
C13_WrapBoundaryAsStated ==
  wrapCall.returned
  => /\ StrLength(wrapCall.text) <= wrapCall.maxLength => Lines = <<wrapCall.text>>
     /\ StrLength(wrapCall.text) = wrapCall.maxLength + 1 => Markers >= 1
     /\ StrLength(wrapCall.text) > wrapCall.maxLength
        => \A i \in 1..Len(Lines) :
             \/ StrLength(Lines[i]) <= wrapCall.maxLength
             \/ Len(Lines[i]) = 1

\* C13: as above, but a text of maxLength + 1 characters gets a marker
\* only when it contains a space; a single word of maxLength + 1 characters
\* comes back without one.
C13_WrapBoundary ==
  wrapCall.returned
  => /\ StrLength(wrapCall.text) <= wrapCall.maxLength => Lines = <<wrapCall.text>>
     /\ (StrLength(wrapCall.text) = wrapCall.maxLength + 1 /\ Len(wrapCall.text) > 1)
        => Markers >= 1
     /\ (StrLength(wrapCall.text) = wrapCall.maxLength + 1 /\ Len(wrapCall.text) = 1)
        => Lines = <<wrapCall.text>>
     /\ StrLength(wrapCall.text) > wrapCall.maxLength
        => \A i \in 1..Len(Lines) :
             \/ StrLength(Lines[i]) <= wrapCall.maxLength
             \/ (Len(Lines[i]) = 1 /\ StrLength(Lines[i]) > wrapCall.maxLength)

\* a text of maxLength + 1 characters with a space, cut into two lines
C13_Witness ==
  /\ wrapCall.returned
  /\ Len(wrapCall.text) > 1
  /\ StrLength(wrapCall.text) = wrapCall.maxLength + 1
  /\ Markers = 1
  /\ \A i \in 1..Len(Lines) : StrLength(Lines[i]) <= wrapCall.maxLength

\* the words of a sequence of lines, one after the other
RECURSIVE WordsOf(_)
WordsOf(lines) ==
  IF lines = <<>> THEN <<>> ELSE Head(lines) \o WordsOf(Tail(lines))

\* a sequence of words without its empty words
RECURSIVE NonEmptyWords(_)
NonEmptyWords(ws) ==
  IF ws = <<>> THEN <<>>
  ELSE (IF Head(ws) = "" THEN <<>> ELSE <<Head(ws)>>) \o NonEmptyWords(Tail(ws))

SingleSpaced(text) == \A i \in 1..Len(text) : text[i] # ""

\* C14: for a text longer than maxLength the lines hold the words of the
\* text, whole and in their order; when the words of the text are separated
\* by single spaces, a line is closed before a word exactly when the line
\* with that word appended would be longer than maxLength, and the lines
\* joined by single spaces are the text.
C14_GreedyWrap ==
  (wrapCall.returned /\ StrLength(wrapCall.text) > wrapCall.maxLength)
  => /\ NonEmptyWords(WordsOf(Lines)) = NonEmptyWords(wrapCall.text)
     /\ SingleSpaced(wrapCall.text)
        => /\ WordsOf(Lines) = wrapCall.text
           /\ \A i \in 1..Len(Lines) :
                /\ Len(Lines[i]) >= 1
                /\ \A k \in 2..Len(Lines[i]) :
                     StrLength(SubSeq(Lines[i], 1, k)) <= wrapCall.maxLength
                /\ i < Len(Lines)
                   => StrLength(Lines[i]) + 1 + Len(Lines[i + 1][1])
                        > wrapCall.maxLength

\* three words on two lines: the second word fits the first line, the third
\* does not
C14_Witness ==
  /\ wrapCall.returned
  /\ SingleSpaced(wrapCall.text)
  /\ Len(wrapCall.text) = 3
  /\ Len(Lines) = 2
  /\ Len(Lines[1]) = 2
  /\ StrLength(Lines[1]) <= wrapCall.maxLength
  /\ WordsOf(Lines) = wrapCall.text

(***************************************************************************)
(* Colours.                                                                *)
(***************************************************************************)
\* the 0-based index of position i among the entries with its parent, and
\* among the entries of its depth
SiblingIndex(i) ==
  Cardinality({j \in 1..(i - 1) : transformedData.parents[j] = transformedData.parents[i]})

DepthIndex(i) ==
  Cardinality({j \in 1..(i - 1) : PreOrder[j].depth = PreOrder[i].depth})

\* the depths and indices getAltColor is tried on beyond those of a run
DeepDepths == 4..6
SomeIndices == 0..3

\* C15 as stated (App.js): a node of depth 1, 2 or 3 has the colour of its
\* depth at its sibling index modulo 2; the root is '#FFFFFF'; a depth
\* above 3 gives '#CCCCCC'.
C15_SiblingColourAsStated ==
  (variant = "App.js" /\ Flattened)
  => /\ transformedData.colors[1] = "#FFFFFF"
     /\ \A i \in Positions \ {1} :
          transformedData.colors[i]
            = LAYER_COLORS[PreOrder[i].depth][(SiblingIndex(i) % 2) + 1]
     /\ \A d \in DeepDepths, idx \in SomeIndices : getAltColor(d, idx) = "#CCCCCC"

\* C15 (App.js): a node of depth 1 or 3 has the colour of its depth at its
\* sibling index modulo 2; a node of depth 2 has the colour of depth 2 at
\* its index among all the depth-2 nodes of the traversal modulo 2, so it
\* depends on how many sub-groups the groups before have; the root is
\* '#FFFFFF'; a depth above 3 gives '#CCCCCC'.
C15_AlternatingColour ==
  (variant = "App.js" /\ Flattened)
  => /\ transformedData.colors[1] = "#FFFFFF"
     /\ \A i \in Positions \ {1} :
          transformedData.colors[i]
            = LAYER_COLORS[PreOrder[i].depth]
                          [((IF PreOrder[i].depth = 2 THEN DepthIndex(i)
                                                      ELSE SiblingIndex(i)) % 2) + 1]
     /\ \A d \in DeepDepths, idx \in SomeIndices : getAltColor(d, idx) = "#CCCCCC"

\* the first sub-group of the second group takes the second colour, the
\* first group having one sub-group
C15_Witness ==
  /\ variant = "App.js"
  /\ Flattened
  /\ \E i \in Positions :
       /\ PreOrder[i].depth = 2
       /\ SiblingIndex(i) = 0
       /\ DepthIndex(i) = 1
       /\ transformedData.colors[i] = LAYER_COLORS[2][2]
  /\ \E i \in Positions : PreOrder[i].depth = 1 /\ SiblingIndex(i) = 1
                          /\ transformedData.colors[i] = LAYER_COLORS[1][2]

\* the position of the depth-1 ancestor of position i (i itself at depth 1)
RECURSIVE GroupPosition(_)
GroupPosition(i) ==
  IF PreOrder[i].depth <= 1 THEN i ELSE GroupPosition(i - 1)

\* C16 (part_000): a group with an entry in the table has the entry's
\* level1 colour, and the nodes below it have the level2 and level3 colours
\* of that same entry, whatever their own labels are.
C16_GroupColour ==
  (variant = "part_000" /\ Flattened)
  => \A i \in Positions \ {1} :
       LET G == PreOrder[GroupPosition(i)].label
       IN  G \in DOMAIN COLOR_PALETTES_BY_GROUP
           => transformedData.colors[i]
                = CASE PreOrder[i].depth = 1 -> COLOR_PALETTES_BY_GROUP[G].level1
                    [] PreOrder[i].depth = 2 -> COLOR_PALETTES_BY_GROUP[G].level2
                    [] OTHER -> COLOR_PALETTES_BY_GROUP[G].level3

\* a statement below a sub-group whose own label is a key of the table with
\* another level3 colour
C16_Witness ==
  /\ variant = "part_000"
  /\ Flattened
  /\ \E i \in Positions :
       /\ PreOrder[i].depth = 3
       /\ PreOrder[i - 1].depth = 2
       /\ PreOrder[i - 1].label \in DOMAIN COLOR_PALETTES_BY_GROUP
       /\ COLOR_PALETTES_BY_GROUP[PreOrder[i - 1].label].level3
            # COLOR_PALETTES_BY_GROUP[PreOrder[GroupPosition(i)].label].level3
       /\ transformedData.colors[i]
            = COLOR_PALETTES_BY_GROUP[PreOrder[GroupPosition(i)].label].level3

\* the strong fills: '#F84B64' and the pink FF848B, which the palette of
\* part_000 spells 'FF848B' and that of App.js '#FF848B'
StrongColours == {"#F84B64", "FF848B", "#FF848B"}

\* C17: in both variants the root is '#FFFFFF' with black text, and every
\* other entry has white text when its fill is a strong colour and black
\* text otherwise, so that equal fills have equal text colours.
C17_TextColour ==
  Flattened
  => /\ transformedData.colors[1] = "#FFFFFF"
     /\ transformedData.textColors[1] = "black"
     /\ \A i \in Positions \ {1} :
          transformedData.textColors[i]
            = IF transformedData.colors[i] \in StrongColours THEN "#FFFFFF" ELSE "black"
     /\ \A i, j \in Positions :
          transformedData.colors[i] = transformedData.colors[j]
          => transformedData.textColors[i] = transformedData.textColors[j]

\* part_000: a group in '#F84B64' and a group in 'FF848B', both with white
\* text, and a sub-group in black
C17_Witness ==
  /\ Flattened
  /\ \E i, j, k \in Positions :
       /\ transformedData.colors[i] = "#F84B64"
       /\ transformedData.textColors[i] = "#FFFFFF"
       /\ transformedData.colors[k] = "FF848B"
       /\ transformedData.textColors[k] = "#FFFFFF"
       /\ PreOrder[j].depth = 2
       /\ transformedData.textColors[j] = "black"

(***************************************************************************)
(* The click listener of the chart and the start of the view, checked      *)
(* under Spec.                                                             *)
(***************************************************************************)
\* C18: over the life of one view at most one plotly_click registration
\* exists at a time, it is added by one call, a click or the close button
\* adds and removes no registration, and the removal of the view removes
\* exactly one.
C18_ListenerLifecycle ==
  /\ Len(listeners) <= 1
  /\ lastEvent.type \in {"mount", "initialized"}
     => (lastCalls.added <= 1 /\ lastCalls.removed = 0)
  /\ lastEvent.type \in {"plotly_click", "close"} => lastCalls = NoCalls
  /\ lastEvent.type = "unmount" => (lastCalls.removed = 1 /\ listeners = <<>>)

\* the index holds one entry per node of the hierarchy and is the index of
\* the stored result of transformDataForSunburst
FullIndex ==
  /\ transformedData = transformDataForSunburst(variant, rawDataTree)
  /\ DOMAIN Index = Range(transformedData.ids)
  /\ Cardinality(DOMAIN Index) = Len(PreOrder)

\* C19: a registration exists, and the graphDiv is known, only once the
\* complete result of transformDataForSunburst is stored; every registered
\* handler has captured the full index and a focus that is a node id, the
\* handler registered by onInitialized has captured the root id, the one
\* registered last is the handler of the current render, and every click
\* that was handled found the view running with the full index and a focus
\* that was a node id.
C19_InitialisationBarrier ==
  /\ (graphDivRef \/ listeners # <<>>) => FullIndex
  /\ \A i \in DOMAIN listeners :
       /\ listeners[i].indexed
       /\ listeners[i].currentLevelId \in DOMAIN Index
  /\ (listeners # <<>> /\ status = "ready")
     => listeners[Len(listeners)] = closure(0, currentLevelId, transformedData)
  /\ lastEvent.type = "initialized"
     => listeners[Len(listeners)].currentLevelId = RootId
  /\ lastEvent.type = "plotly_click"
     => /\ prev.status = "ready"
        /\ FullIndex
        /\ prev.currentLevelId \in DOMAIN Index

\* the first click that the view handles: the focus it finds is the root
\* id, the node it names becomes the focus
C19_Witness ==
  /\ ClickedAtDepth({1})
  /\ prev.currentLevelId = RootId
  /\ currentLevelId = ClickedId(lastEvent)
  /\ FullIndex
  /\ Len(transformedData.ids) >= 4

\* C20: before the mount effect has run the focus is '', the panel is
\* closed, the rows are empty and the index is empty; the mount effect
\* whose flattening returns leaves the focus on ids[0], the root id, with
\* the panel closed and empty; from then on the focus is a node id, never ''.
C20_StartupTransition ==
  /\ status = "loading"
     => /\ currentLevelId = ""
        /\ ~showPopoutTable
        /\ popoutTableRows = <<>>
        /\ transformedData = NoData
  /\ (lastEvent = MountEvent /\ status # "crashed")
     => /\ prev.currentLevelId = ""
        /\ prev.status = "loading"
        /\ currentLevelId = transformedData.ids[1]
        /\ Index[currentLevelId].depth = 0
        /\ ~showPopoutTable
        /\ popoutTableRows = <<>>
  /\ status \in {"ready", "unmounted"}
     => (currentLevelId # "" /\ currentLevelId \in DOMAIN Index)

\* just after the mount effect: the focus has moved from '' to the root id
C20_Witness ==
  /\ lastEvent = MountEvent
  /\ status = "ready"
  /\ prev.currentLevelId = ""
  /\ currentLevelId = RootId
  /\ ~showPopoutTable
  /\ Len(transformedData.ids) >= 3

(***************************************************************************)
(* The index as a tree, checked under SpecAnyLabels.                       *)
(***************************************************************************)
\* no label occurs twice in a sequence of sibling labels
Injective(labels) ==
  \A i, j \in DOMAIN labels : labels[i] = labels[j] => i = j

\* the labels of the hierarchy are unique within every sibling set: the
\* groups, the sub-groups of one group, the statements of one sub-group
SiblingsDistinct ==
  /\ Injective([k \in DOMAIN rawDataTree.groups |-> rawDataTree.groups[k].label])
  /\ \A k \in DOMAIN rawDataTree.groups :
       LET subs == rawDataTree.groups[k].subs
       IN  /\ Injective([j \in DOMAIN subs |-> subs[j].label])
           /\ \A j \in DOMAIN subs : Injective(subs[j].policies)

\* the id reached from id x by following parentId n times; '' above the
\* root and off the index
RECURSIVE Ancestor(_, _)
Ancestor(x, n) ==
  IF n = 0 \/ x \notin DOMAIN Index
  THEN x
  ELSE Ancestor(Index[x].parentId, n - 1)

\* C21: for a hierarchy whose labels are unique within each sibling set,
\* repeated elsewhere or not, every id stands at exactly one parent in the
\* parents array, the root has depth 0 and the parent '', every other node
\* has a depth of at most 3 that is one more than the depth of its parentId,
\* following parentId from a node reaches the root in depth steps, and
\* getBreadCrumbs returns for every id.
C21_StrictTreeIndex ==
  (Flattened /\ SiblingsDistinct)
  => /\ \A i, j \in Positions :
          transformedData.ids[i] = transformedData.ids[j]
          => transformedData.parents[i] = transformedData.parents[j]
     /\ Index[RootId].depth = 0
     /\ Index[RootId].parentId = ""
     /\ \A x \in DOMAIN Index \ {RootId} :
          /\ Index[x].depth \in 1..3
          /\ Index[x].parentId \in DOMAIN Index
          /\ Index[x].depth = Index[Index[x].parentId].depth + 1
          /\ Ancestor(x, Index[x].depth) = RootId
     /\ \A x \in DOMAIN Index :
          getBreadCrumbs(Index, x).outcome = "returns"

(***************************************************************************)
(* What the events of the view leave alone, checked under Spec.            *)
(***************************************************************************)
\* C22: once the mount effect has run, no step of the view (click, panel
\* close, breadcrumb update, onInitialized, removal) changes ids, labels,
\* parents, values, colors, textColors or nodeInfo, and the mount effect
\* with its flattening does not run again.
C22_IndexImmutable ==
  [][ status # "loading"
      => (transformedData' = transformedData /\ lastEvent' # MountEvent) ]_vars

\* after a click that moved the focus and a panel close, the stored result
\* is still the flattening of the hierarchy
C22_Witness ==
  /\ lastEvent = CloseEvent
  /\ currentLevelId # RootId
  /\ Len(transformedData.ids) >= 4
  /\ transformedData = transformDataForSunburst(variant, rawDataTree)

\* C23 as stated: once the mount effect has run, the focus, the panel flag
\* and the panel rows change only in a step that handles a chart click.
C23_OnlyClickHandlerAsStated ==
  [][ (status = "ready" /\ Nav' # Nav) => lastEvent'.type = "plotly_click" ]_vars

\* C23: once the mount effect has run, the focus changes only in a step
\* that handles a chart click, and the panel flag and the panel rows change
\* only in such a step or in a step of closePopoutTable started by the
\* overlay or the close button of the panel, which leaves the focus alone.
C23_OnlyClickOrClose ==
  [][ status = "ready"
      => /\ currentLevelId' # currentLevelId => lastEvent'.type = "plotly_click"
         /\ (showPopoutTable' # showPopoutTable \/ popoutTableRows' # popoutTableRows)
            => lastEvent'.type \in {"plotly_click", "close"} ]_vars

\* the close button has closed a panel that a click on a statement opened
\* below a sub-group in focus
C23_Witness ==
  /\ lastEvent = CloseEvent
  /\ prev.showPopoutTable
  /\ Len(prev.popoutTableRows) = 6
  /\ ~showPopoutTable
  /\ currentLevelId = prev.currentLevelId
  /\ currentLevelId \in DOMAIN Index
  /\ Index[currentLevelId].depth = 2

(***************************************************************************)
(* The flattener on cyclic structures: the loops of                        *)
(* transformDataForSunburst, one iteration per step.                       *)
(***************************************************************************)
MaxCyclicNodes == 3    \* nodes below the root of a hierarchy with a cycle

\* the slots of the hierarchy with the enclosing values each can refer to
Backs(dataTree) ==
  {NoBack}
  \cup {[path |-> <<>>, to |-> "dataTree"]}
  \cup {[path |-> <<k>>, to |-> t] :
          k \in DOMAIN dataTree.groups, t \in {"dataTree", "root"}}
  \cup UNION {{[path |-> <<k, j>>, to |-> t] :
                 j \in DOMAIN dataTree.groups[k].subs,
                 t \in {"dataTree", "root", "group"}} :
              k \in DOMAIN dataTree.groups}
  \cup UNION {UNION {{[path |-> <<k, j, p>>, to |-> t] :
                        p \in DOMAIN dataTree.groups[k].subs[j].policies,
                        t \in {"dataTree", "root", "group", "policies"}} :
                     j \in DOMAIN dataTree.groups[k].subs} :
              k \in DOMAIN dataTree.groups}

InitCyclic ==
  /\ variant \in Variants
  /\ rawDataTree \in {[root |-> RootLabel, groups |-> g] :
                        g \in GroupSeqs(LiteralLabels, MaxCyclicNodes, {RootLabel}, TRUE)}
  /\ status = "loading"
  /\ transformedData = NoData
  /\ currentLevelId = ""
  /\ showPopoutTable = FALSE
  /\ popoutTableRows = <<>>
  /\ breadcrumbs = <<>>
  /\ lastEvent = NoEvent
  /\ prev = Snapshot
  /\ wrapCall = NoCall
  /\ graphDivRef = FALSE
  /\ listeners = <<>>
  /\ lastCalls = NoCalls
  /\ \E back \in Backs(rawDataTree) :
       flattenCall = [NoFlatten EXCEPT !.back = back, !.pc = "called"]

\* the root node, then the head of the loop over dataTree[rootLabel]
FlattenRoot ==
  /\ flattenCall.pc = "called"
  /\ flattenCall' =
       [flattenCall EXCEPT
          !.level1Data = member(flattenCall.back, JsValue("object", "dataTree", 0, 0), 1),
          !.level1 = 1,
          !.pc = "level1"]

\* for (const level1Label in dataTree[rootLabel]): one group, or the end of
\* the loop and the return
FlattenLevel1 ==
  /\ flattenCall.pc = "level1"
  /\ flattenCall' =
       IF flattenCall.level1 > size(rawDataTree, flattenCall.level1Data)
       THEN [flattenCall EXCEPT !.pc = "returned"]
       ELSE IF /\ variant = "part_000"
               /\ keyLabel(rawDataTree, flattenCall.level1Data, flattenCall.level1)
                    \notin DOMAIN COLOR_PALETTES_BY_GROUP
       THEN [flattenCall EXCEPT !.pc = "thrown"]
       ELSE [flattenCall EXCEPT
               !.level2Data = member(flattenCall.back, flattenCall.level1Data,
                                     flattenCall.level1),
               !.level2 = 1,
               !.pc = "level2"]

\* for (const level2Label in dataTree[rootLabel][level1Label]): one
\* sub-group up to policies.forEach, or the end of the loop
FlattenLevel2 ==
  /\ flattenCall.pc = "level2"
  /\ flattenCall' =
       IF flattenCall.level2 > size(rawDataTree, flattenCall.level2Data)
       THEN [flattenCall EXCEPT !.level1 = nextKey(@), !.pc = "level1"]
       ELSE IF forEachThrows(member(flattenCall.back, flattenCall.level2Data,
                                    flattenCall.level2))
       THEN [flattenCall EXCEPT !.pc = "thrown"]
       ELSE [flattenCall EXCEPT
               !.policies = member(flattenCall.back, flattenCall.level2Data,
                                   flattenCall.level2),
               !.policy = 1,
               !.pc = "policies"]

\* policies.forEach(policyLabel => ...): one statement, or the end of the
\* array
FlattenPolicy ==
  /\ flattenCall.pc = "policies"
  /\ flattenCall' =
       IF flattenCall.policy > size(rawDataTree, flattenCall.policies)
       THEN [flattenCall EXCEPT !.level2 = nextKey(@), !.pc = "level2"]
       ELSE IF wrapThrows(rawDataTree,
                          member(flattenCall.back, flattenCall.policies,
                                 flattenCall.policy))
       THEN [flattenCall EXCEPT !.pc = "thrown"]
       ELSE [flattenCall EXCEPT !.policy = nextKey(@)]

FlattenNext ==
  /\ \/ FlattenRoot
     \/ FlattenLevel1
     \/ FlattenLevel2
     \/ FlattenPolicy
  /\ UNCHANGED <<variant, rawDataTree, status, transformedData, currentLevelId,
                 showPopoutTable, popoutTableRows, breadcrumbs, lastEvent, prev,
                 wrapCall, graphDivRef, listeners, lastCalls>>

\* the call keeps running until it returns or throws
SpecCyclic == InitCyclic /\ [][FlattenNext]_vars /\ WF_vars(FlattenNext)

Cyclic == flattenCall.back.to # "none"
Ended == flattenCall.pc \in {"returned", "thrown"}

\* C24 as stated: the flattening of a structure with a cycle never ends.
C24_CyclicDivergesAsStated == Cyclic => ~Ended

\* C24: the flattening of any structure, with a cycle or without, ends; it
\* returns for a hierarchy without a cycle whose groups the variant knows
\* and throws when a slot holds a reference to an object that encloses it
\* (dataTree, dataTree[rootLabel] or the slot's group).
C24_CyclicTerminates ==
  /\ <>Ended
  /\ []((Ended /\ flattenCall.back.to \in {"dataTree", "root", "group"})
        => flattenCall.pc = "thrown")
  /\ []((Ended /\ ~Cyclic /\ variant = "App.js") => flattenCall.pc = "returned")

\* a group that holds itself as the value of its second sub-group: the call
\* has gone through the first sub-group and has thrown at the second
C24_Witness ==
  /\ flattenCall.back = [path |-> <<1, 2>>, to |-> "group"]
  /\ flattenCall.pc = "thrown"
  /\ flattenCall.level2 = 2

(***************************************************************************)
(* Invariants of the navigation state, checked under Spec.                 *)
(***************************************************************************)
\* C25: once the mount effect has run, whatever was clicked (ids of the
\* index or not) or closed, the focus is a key of the index of depth 0, 1 or
\* 2, never a statement; and a step that has moved the focus has handled a
\* click and has left the focus on the clicked node, on its parent or on the
\* root id.
C25_FocusValidity ==
  status \in {"ready", "unmounted"}
  => /\ currentLevelId \in DOMAIN Index
     /\ Index[currentLevelId].depth \in {0, 1, 2}
     /\ (prev.status = "ready" /\ currentLevelId # prev.currentLevelId)
        => /\ IsClick(lastEvent)
           /\ ClickedId(lastEvent) \in DOMAIN Index
           /\ currentLevelId \in {ClickedId(lastEvent),
                                  Index[ClickedId(lastEvent)].parentId,
                                  RootId}

\* a click on a statement below the sub-group in focus: the panel is open
\* and the focus has stayed on the sub-group
C25_Witness ==
  /\ ClickedAtDepth({3})
  /\ Index[ClickedId(lastEvent)].parentId = currentLevelId
  /\ Index[currentLevelId].depth = 2
  /\ currentLevelId = prev.currentLevelId
  /\ showPopoutTable

(***************************************************************************)
(* The handlers that a click reaches, checked under Spec.                  *)
(***************************************************************************)
\* C26: in every state in which a click can be delivered exactly one
\* handler is registered and the focus it has captured is the focus of the
\* view, so that a click is handled once and never by a handler of an
\* earlier render; and a click on a depth-1 node leaves the focus on the
\* root id when the node was the focus and on the node otherwise, so that
\* two clicks in a row toggle.
C26_NoStaleOrDuplicate ==
  /\ (status = "ready" /\ listeners # <<>>)
     => /\ Len(listeners) = 1
        /\ listeners[1] = closure(0, currentLevelId, transformedData)
  /\ ClickedAtDepth({1})
     => currentLevelId = IF prev.currentLevelId = ClickedId(lastEvent)
                         THEN RootId
                         ELSE ClickedId(lastEvent)

\* C27: in every state the panel is open exactly when the row list holds 6
\* rows and closed exactly when the row list is empty; and a step of the
\* close button or the overlay leaves the panel closed and empty and the
\* focus and the breadcrumbs as they were.
C27_PanelConsistency ==
  /\ showPopoutTable <=> Len(popoutTableRows) = 6
  /\ ~showPopoutTable <=> popoutTableRows = <<>>
  /\ lastEvent = CloseEvent
     => /\ ~showPopoutTable
        /\ popoutTableRows = <<>>
        /\ currentLevelId = prev.currentLevelId
        /\ breadcrumbs = prev.breadcrumbs

\* App.js: the close button has closed the panel of 6 rows while a group
\* was the focus, and the breadcrumb of the group is still shown
C27_Witness ==
  /\ lastEvent = CloseEvent
  /\ prev.showPopoutTable
  /\ Len(prev.popoutTableRows) = 6
  /\ ~showPopoutTable
  /\ popoutTableRows = <<>>
  /\ Index[currentLevelId].depth = 1
  /\ Len(breadcrumbs) = 1
  /\ breadcrumbs = prev.breadcrumbs

(***************************************************************************)
(* Two clicks in a row on one node, checked under Spec: the first is the   *)
(* click the view has just handled, the second is handlePlotClick applied  *)
(* to the same event in the state the first has left.                      *)
(***************************************************************************)
SecondClick == handlePlotClick(lastEvent, transformedData, Nav)

\* C28 as stated: two clicks on a node n of depth 1 or 2 end on the parent
\* of n with the panel closed when the focus was the parent of n or any
\* node other than n, and they end on the focus they started from exactly
\* when that focus was the parent of n.
C28_ToggleRoundTripAsStated ==
  ClickedAtDepth({1, 2})
  => /\ prev.currentLevelId # ClickedId(lastEvent)
        => /\ SecondClick.currentLevelId = Index[ClickedId(lastEvent)].parentId
           /\ ~SecondClick.showPopoutTable
     /\ SecondClick.currentLevelId = prev.currentLevelId
        <=> prev.currentLevelId = Index[ClickedId(lastEvent)].parentId

\* C28: two clicks on a node n of depth 1 or 2 end with the panel closed
\* and empty, on n when n was the focus and on the parent of n (the root id
\* for depth 1) otherwise; so they end on the focus they started from
\* exactly when that focus was n or the parent of n.
C28_ToggleRoundTrip ==
  ClickedAtDepth({1, 2})
  => /\ SecondClick.currentLevelId
          = IF prev.currentLevelId = ClickedId(lastEvent)
            THEN ClickedId(lastEvent)
            ELSE Index[ClickedId(lastEvent)].parentId
     /\ ~SecondClick.showPopoutTable
     /\ SecondClick.popoutTableRows = <<>>
     /\ SecondClick.currentLevelId = prev.currentLevelId
        <=> prev.currentLevelId \in {ClickedId(lastEvent),
                                     Index[ClickedId(lastEvent)].parentId}

\* the first click on a sub-group came with a sub-group of another group in
\* focus; the second click leaves the focus on the parent of the clicked
\* node, not where it was
C28_Witness ==
  /\ ClickedAtDepth({2})
  /\ prev.currentLevelId \in DOMAIN Index
  /\ Index[prev.currentLevelId].depth = 2
  /\ prev.currentLevelId # ClickedId(lastEvent)
  /\ Index[prev.currentLevelId].parentId # Index[ClickedId(lastEvent)].parentId
  /\ currentLevelId = ClickedId(lastEvent)
  /\ SecondClick.currentLevelId = Index[ClickedId(lastEvent)].parentId
  /\ SecondClick.currentLevelId # prev.currentLevelId

====
